---- MODULE Spec2Model ----
(***************************************************************************)
(* EGODS remote fill station: the LoRa link between the Command Unit and   *)
(* the Actuator Unit.  One board runs one sketch; `board` says which one.  *)
(* Bytes are integers 0..255, packets and Strings are sequences of bytes.  *)
(***************************************************************************)
EXTENDS Integers, Sequences, FiniteSets, TLC

VARIABLES
  board,            \* the sketch flashed on the board under study
  pc,               \* position of the main program (setup, loop and its statements)
  set_up_success,   \* byte set_up_success
  loop_fail_once,   \* byte loop_fail_once
  handler,          \* TRUE once LoRa.onReceive(onReceive) registered the callback
  millis,           \* value of millis()
  last_send_time,   \* long last_send_time
  interval,         \* int interval
  opcode,           \* byte opcode / encoded_message (actuator: last received; command: last generated)
  rcv_opcode,       \* byte rcv_opcode / received_message: the retained (latched) code
  rcv_sw,           \* locals rcv_fill_sw_state, rcv_dump_sw_state, rcv_check_sw_state
  pins,             \* levels of the three valve output pins <<fill, dump, check>>
  pin_written,      \* TRUE once digitalWrite was called on a valve pin
  tx,               \* the last frame handed to LoRa.endPacket, <<>> if none yet
  sent_at,          \* what millis() was when that frame was handed over, -1 if none
                    \* yet (no variable of a sketch holds it)
  fill_pres_str,    \* String fill_pres_str
  dump_pres_str,    \* String dump_pres_str
  check_pres_str,   \* String check_pres_str
  rx_src,           \* the accepted packet that last wrote the three sensor Strings
  shown,            \* the sensor Strings this iteration of the command loop has read
                    \* for printing so far, each with the packet its text came from
  bench,            \* function bench: a function of the sketches applied to drawn inputs
  sh,               \* the actuator as it would be had the rejected packets never arrived
  link,             \* the radio link of a paired run: the command unit at the other
                    \* end, its switches and the frame on the air
  win               \* LED_actuation of the pressure actuator taken statement by
                    \* statement: its parameter, and the opcodes accepted around it

boardVars == <<board, pc, set_up_success, loop_fail_once, handler, millis,
               last_send_time, interval, opcode, rcv_opcode, rcv_sw, pins,
               pin_written, tx, sent_at, fill_pres_str, dump_pres_str, check_pres_str,
               rx_src, shown>>
vars == <<boardVars, bench, sh, link, win>>

timerVars == <<millis, last_send_time, interval, sent_at>>
latchVars == <<rcv_opcode, rcv_sw, pins, pin_written>>
sensorVars == <<fill_pres_str, dump_pres_str, check_pres_str, rx_src>>
flagVars == <<set_up_success, loop_fail_once, handler>>

----------------------------------------------------------------------------
(* Bounds of the model *)

\* millis() is explored up to this value
MaxMillis == 3000
\* opcode bytes 0..MaxOpcodeByte are drawn (besides the address bytes and 255)
MaxOpcodeByte == 9
\* opcode packets of up to this many bytes are drawn
MaxPacketLen == 3

(* Program constants *)

ACT_LOCAL == 187
ACT_DEST == 204
CMD_LOCAL == 204
CMD_DEST == 187
INIT_INTERVAL == 1000
RANDOM_MAX == 1000
INTERVAL_BASE == 500
SEPARATOR == 124
\* LoRa.read() returns -1 when the packet is exhausted; stored in a byte it is 255
NO_BYTE == 255

Byte == 0..255
UNSAFE == {1, 3, 6, 7}

----------------------------------------------------------------------------
(* Inputs the environment can present *)

\* header bytes: the two units' addresses; their four pairs give a unit every
\* combination of right and wrong recipient and sender
AddrBytes == {ACT_LOCAL, ACT_DEST}
OpcodeBytes == (0..MaxOpcodeByte) \cup {NO_BYTE}

\* Packets on the air towards an actuator: every header pair over AddrBytes,
\* then an opcode byte, then padding; and every prefix of such a packet.
FullOpcodePackets ==
  { <<r, s, b>> \o [i \in 1..(MaxPacketLen - 3) |-> 0] :
      r \in AddrBytes, s \in AddrBytes, b \in OpcodeBytes }
OpcodePackets ==
  { SubSeq(p, 1, n) : p \in FullOpcodePackets, n \in 0..MaxPacketLen }

\* steps by which the clock is observed to advance
ClockSteps == {INTERVAL_BASE}
\* values random(1000) is drawn from: both ends and the middle
RandomDraws == {0, RANDOM_MAX \div 2, RANDOM_MAX - 1}
\* analogRead of the three pressure transducers
SensorReadings == { <<0, 0, 0>>, <<1023, 512, 7>> }
\* Sensor text on the air towards the command unit
SensorTexts ==
  { <<>>, <<53, SEPARATOR>>, <<49, SEPARATOR, 50, SEPARATOR, 51>>,
    <<55, SEPARATOR, 56, SEPARATOR, 57, SEPARATOR, 52>> }
SensorPackets ==
  { <<>> } \cup { <<r>> : r \in AddrBytes }
    \cup { <<r, s>> \o t : r \in AddrBytes, s \in AddrBytes, t \in SensorTexts }
\* pulseIn on the echo pin, in microseconds; 0 is its timeout
EchoDurations == {0, 2 * INTERVAL_BASE}
\* digitalRead of the three switches
SwitchReadings == { <<f, d, c>> : f \in {0, 1}, d \in {0, 1}, c \in {0, 1} }

----------------------------------------------------------------------------
(* Pure functions of the sketches *)

\* LoRa.read(): the i-th byte of the packet, -1 (255 as a byte) past its end
LoRaRead(pkt, i) == IF i <= Len(pkt) THEN pkt[i] ELSE NO_BYTE

\* (x >> n) & 0b1
BitOf(x, n) == (x \div (2 ^ n)) % 2

\* LED_actuation with code 7 missing from its forbidden-state test
LED_actuation_misses7(code, latched) ==
  LET kept == IF (code = 1) \/ (code = 3) \/ (code = 6) THEN latched ELSE code
  IN [ rcv_opcode |-> kept,
       fill  |-> BitOf(kept, 2),
       dump  |-> BitOf(kept, 1),
       check |-> BitOf(kept, 0) ]

\* LED_actuation with 5 in its forbidden-state test where 6 should be
LED_actuation_rejects5(code, latched) ==
  LET kept == IF (code = 1) \/ (code = 3) \/ (code = 5) \/ (code = 7)
              THEN latched
              ELSE code
  IN [ rcv_opcode |-> kept,
       fill  |-> BitOf(kept, 2),
       dump  |-> BitOf(kept, 1),
       check |-> BitOf(kept, 0) ]

\* LED_actuation that also holds the retained code on a byte above 7
LED_actuation_rejects_above7(code, latched) ==
  LET kept == IF (code = 1) \/ (code = 3) \/ (code = 6) \/ (code = 7) \/ (code > 7)
              THEN latched
              ELSE code
  IN [ rcv_opcode |-> kept,
       fill  |-> BitOf(kept, 2),
       dump  |-> BitOf(kept, 1),
       check |-> BitOf(kept, 0) ]

\* LED_actuation that takes a code it already retains for a release
LED_actuation_clears_on_repeat(code, latched) ==
  LET kept == IF (code = 1) \/ (code = 3) \/ (code = 6) \/ (code = 7)
              THEN latched
              ELSE IF code = latched THEN 0 ELSE code
  IN [ rcv_opcode |-> kept,
       fill  |-> BitOf(kept, 2),
       dump  |-> BitOf(kept, 1),
       check |-> BitOf(kept, 0) ]

\* LED_actuation of the pressure actuator: the forbidden-state latch followed
\* by the decode of the retained code into the three pin levels.
LED_actuation(code, latched) ==
  LET kept == IF (code = 1) \/ (code = 3) \/ (code = 6) \/ (code = 7)
              THEN latched
              ELSE code
  IN [ rcv_opcode |-> kept,
       fill  |-> BitOf(kept, 2),
       dump  |-> BitOf(kept, 1),
       check |-> BitOf(kept, 0) ]

\* onReceive that applies the opcode it reads at once
onReceive_actuator_applies(pkt, g) ==
  IF Len(pkt) = 0 THEN g
  ELSE LET recipient_address == LoRaRead(pkt, 1)
           sender_address == LoRaRead(pkt, 2)
       IN IF (recipient_address # ACT_LOCAL) \/ (sender_address # ACT_DEST)
          THEN g
          ELSE LET r == LED_actuation(LoRaRead(pkt, 3), g.rcv_opcode)
               IN [opcode |-> LoRaRead(pkt, 3), rcv_opcode |-> r.rcv_opcode,
                   pins |-> <<r.fill, r.dump, r.check>>]

\* onReceive with && where the address test has ||
onReceive_actuator_and(pkt, g) ==
  IF Len(pkt) = 0 THEN g
  ELSE LET recipient_address == LoRaRead(pkt, 1)
           sender_address == LoRaRead(pkt, 2)
       IN IF (recipient_address # ACT_LOCAL) /\ (sender_address # ACT_DEST)
          THEN g
          ELSE [g EXCEPT !.opcode = LoRaRead(pkt, 3)]

\* onReceive that tests the recipient address alone
onReceive_actuator_recipient_only(pkt, g) ==
  IF Len(pkt) = 0 THEN g
  ELSE LET recipient_address == LoRaRead(pkt, 1)
       IN IF recipient_address # ACT_LOCAL
          THEN g
          ELSE [g EXCEPT !.opcode = LoRaRead(pkt, 3)]

\* onReceive of the pressure actuator, as a function of the packet and of the
\* globals g = [opcode, rcv_opcode, pins]: the globals when it returns
onReceive_actuator(pkt, g) ==
  IF Len(pkt) = 0 THEN g
  ELSE LET recipient_address == LoRaRead(pkt, 1)
           sender_address == LoRaRead(pkt, 2)
       IN IF (recipient_address # ACT_LOCAL) \/ (sender_address # ACT_DEST)
          THEN g
          ELSE [g EXCEPT !.opcode = LoRaRead(pkt, 3)]

\* String(float) of a whole reading: its decimal digits, then ".00"
RECURSIVE DecimalDigits(_)
DecimalDigits(n) ==
  IF n < 10 THEN <<48 + n>> ELSE DecimalDigits(n \div 10) \o <<48 + (n % 10)>>
FloatString(n) == DecimalDigits(n) \o <<46, 48, 48>>

\* sendMessage that prints a separator after the third reading as well
sendMessage_actuator_trailing(data1, data2, data3) ==
  <<ACT_DEST, ACT_LOCAL>> \o FloatString(data1) \o <<SEPARATOR>>
    \o FloatString(data2) \o <<SEPARATOR>> \o FloatString(data3)
    \o <<SEPARATOR>>

\* sendMessage of the pressure actuator: the frame put on the air
sendMessage_actuator(data1, data2, data3) ==
  <<ACT_DEST, ACT_LOCAL>> \o FloatString(data1) \o <<SEPARATOR>>
    \o FloatString(data2) \o <<SEPARATOR>> \o FloatString(data3)

\* ultrasonic_reading and String(distance): distance = duration * 0.034 / 2,
\* printed with two decimals
DistanceString(duration) ==
  LET hundredths == ((duration * 17) + 5) \div 10
  IN DecimalDigits(hundredths \div 100)
       \o <<46, 48 + ((hundredths \div 10) % 10), 48 + (hundredths % 10)>>

\* sendMessage of the ultrasonic actuator: the frame put on the air
sendMessage_ultra(data) == <<ACT_DEST, ACT_LOCAL>> \o data

\* LED_actuation of the ultrasonic actuator
LED_actuation_ultra(code, received_code) ==
  LET kept == IF (code = 1) \/ (code = 3) \/ (code = 6) \/ (code = 7)
              THEN received_code
              ELSE code
  IN [ rcv_opcode |-> kept,
       fill  |-> BitOf(kept, 2),
       dump  |-> BitOf(kept, 1),
       check |-> BitOf(kept, 0) ]

\* onReceive of the ultrasonic actuator, as a function of the packet and of
\* the globals g = [opcode, rcv_opcode, pins] (code, received_code and the
\* LED pins): the globals when it returns
onReceive_ultra(pkt, g) ==
  IF Len(pkt) = 0 THEN g
  ELSE LET recipient_address == LoRaRead(pkt, 1)
           sender_address == LoRaRead(pkt, 2)
       IN IF (recipient_address # ACT_LOCAL) \/ (sender_address # ACT_DEST)
          THEN g
          ELSE [g EXCEPT !.opcode = LoRaRead(pkt, 3)]

\* loop() of the polling actuator from parsePacket to the call of
\* LED_actuation, as a function of the packet found and of the globals
\* g = [opcode, rcv_opcode, pins] (encoded_message, received_message and the
\* LED pins): the globals when LED_actuation(encoded_message) is called, or
\* when loop() returns without calling it
loop_prelim(pkt, g) ==
  LET packet_size == Len(pkt)
  IN IF packet_size # 0
     THEN [g EXCEPT !.opcode = LoRaRead(pkt, 1)]
     ELSE g

\* LED_actuation of the polling actuator
LED_actuation_prelim(message, latched) ==
  LET kept == IF (message = 1) \/ (message = 3) \/ (message = 6) \/ (message = 7)
              THEN latched
              ELSE message
  IN [ rcv_opcode |-> kept,
       fill  |-> BitOf(kept, 2),
       dump  |-> BitOf(kept, 1),
       check |-> BitOf(kept, 0) ]

\* command_message of the polling command unit, on the three switch levels read
command_message(fill_sw, dump_sw, check_sw) ==
  (((fill_sw * 4) % 256) + ((dump_sw * 2) % 256) + check_sw) % 256

\* opcode_generator that shifts the fill level by one place, as the dump level
opcode_generator_fill_shift1(fill_sw, dump_sw, check_sw) ==
  LET fill_sw_state == (fill_sw * 2) % 256
      dump_sw_state == (dump_sw * 2) % 256
      check_sw_state == check_sw
  IN (fill_sw_state + dump_sw_state + check_sw_state) % 256

\* opcode_generator that returns 0 for the switch levels of 1, 3, 6 and 7
opcode_generator_masks_unsafe(fill_sw, dump_sw, check_sw) ==
  LET fill_sw_state == (fill_sw * 4) % 256
      dump_sw_state == (dump_sw * 2) % 256
      check_sw_state == check_sw
      sum == (fill_sw_state + dump_sw_state + check_sw_state) % 256
  IN IF (sum = 1) \/ (sum = 3) \/ (sum = 6) \/ (sum = 7) THEN 0 ELSE sum

\* opcode_generator of the command unit, on the three switch levels read
opcode_generator(fill_sw, dump_sw, check_sw) ==
  LET fill_sw_state == (fill_sw * 4) % 256
      dump_sw_state == (dump_sw * 2) % 256
      check_sw_state == check_sw
  IN (fill_sw_state + dump_sw_state + check_sw_state) % 256

\* the decode of LED_actuation: (x >> 2) & 0b1, (x >> 1) & 0b1, x & 0b1
decode(x) == <<BitOf(x, 2), BitOf(x, 1), BitOf(x, 0)>>

\* state_determination with 7 missing from its last test
state_determination_misses7(state_encode) ==
  IF state_encode = 0 THEN "off"
  ELSE IF state_encode = 1 THEN "don't care"
  ELSE IF state_encode = 2 THEN "dumping"
  ELSE IF state_encode = 4 THEN "fill-ready"
  ELSE IF state_encode = 5 THEN "filling"
  ELSE IF (state_encode = 3) \/ (state_encode = 6) THEN "forbidden"
  ELSE "unknown"

\* state_determination of the polling actuator
state_determination(state_encode) ==
  IF state_encode = 0 THEN "off"
  ELSE IF state_encode = 1 THEN "don't care"
  ELSE IF state_encode = 2 THEN "dumping"
  ELSE IF state_encode = 4 THEN "fill-ready"
  ELSE IF state_encode = 5 THEN "filling"
  ELSE IF (state_encode = 3) \/ (state_encode = 6) \/ (state_encode = 7)
       THEN "forbidden"
  ELSE "unknown"

\* state_determination of the polling command unit
state_determination_command(state_encode) ==
  IF state_encode = 0 THEN "off"
  ELSE IF state_encode = 1 THEN "don't care"
  ELSE IF state_encode = 2 THEN "dumping"
  ELSE IF state_encode = 4 THEN "fill-ready"
  ELSE IF state_encode = 5 THEN "filling"
  ELSE IF (state_encode = 3) \/ (state_encode = 6) \/ (state_encode = 7)
       THEN "forbidden"
  ELSE "unknown"

\* sendMessage that writes local_address before destination_address
sendMessage_command_local_first(code) == <<CMD_LOCAL, CMD_DEST, code>>

\* sendMessage of the command unit: the frame put on the air
sendMessage_command(code) == <<CMD_DEST, CMD_LOCAL, code>>

\* The scan with a third field that stops at a further separator
RECURSIVE ScanSensors_third_stops(_, _, _, _, _, _)
ScanSensors_third_stops(pkt, i, separator, f, d, c) ==
  IF i > Len(pkt) THEN <<f, d, c>>
  ELSE LET curr_char == pkt[i]
       IN IF separator = 0
          THEN IF curr_char = SEPARATOR
               THEN ScanSensors_third_stops(pkt, i + 1, 1, f, d, c)
               ELSE ScanSensors_third_stops(pkt, i + 1, 0, Append(f, curr_char), d, c)
          ELSE IF separator = 1
          THEN IF curr_char = SEPARATOR
               THEN ScanSensors_third_stops(pkt, i + 1, 2, f, d, c)
               ELSE ScanSensors_third_stops(pkt, i + 1, 1, f, Append(d, curr_char), c)
          ELSE IF (separator = 2) /\ (curr_char # SEPARATOR)
          THEN ScanSensors_third_stops(pkt, i + 1, 2, f, d, Append(c, curr_char))
          ELSE ScanSensors_third_stops(pkt, i + 1, 3, f, d, c)

\* The scan of onReceive of the command unit over the bytes still available:
\* separator counts the '|' seen, the three Strings accumulate.
RECURSIVE ScanSensors(_, _, _, _, _, _)
ScanSensors(pkt, i, separator, f, d, c) ==
  IF i > Len(pkt) THEN <<f, d, c>>
  ELSE LET curr_char == pkt[i]
       IN IF separator = 0
          THEN IF curr_char = SEPARATOR
               THEN ScanSensors(pkt, i + 1, 1, f, d, c)
               ELSE ScanSensors(pkt, i + 1, 0, Append(f, curr_char), d, c)
          ELSE IF separator = 1
          THEN IF curr_char = SEPARATOR
               THEN ScanSensors(pkt, i + 1, 2, f, d, c)
               ELSE ScanSensors(pkt, i + 1, 1, f, Append(d, curr_char), c)
          ELSE ScanSensors(pkt, i + 1, 2, f, d, Append(c, curr_char))

\* onReceive that does not clear the three Strings before it scans
onReceive_command_appends(pkt, strs) ==
  IF Len(pkt) = 0 THEN strs
  ELSE LET recipient_address == LoRaRead(pkt, 1)
           sender_address == LoRaRead(pkt, 2)
       IN IF (recipient_address # CMD_LOCAL) \/ (sender_address # CMD_DEST)
          THEN strs
          ELSE ScanSensors(pkt, 3, 0, strs[1], strs[2], strs[3])

\* onReceive of the command unit, as a function of the packet and of the
\* globals strs = <<fill_pres_str, dump_pres_str, check_pres_str>>: the
\* globals when it returns
onReceive_command(pkt, strs) ==
  IF Len(pkt) = 0 THEN strs
  ELSE LET recipient_address == LoRaRead(pkt, 1)
           sender_address == LoRaRead(pkt, 2)
       IN IF (recipient_address # CMD_LOCAL) \/ (sender_address # CMD_DEST)
          THEN strs
          ELSE ScanSensors(pkt, 3, 0, <<>>, <<>>, <<>>)

\* Whether onReceive gets past its address check on this packet
Accepted(pkt, local, peer) ==
  /\ Len(pkt) # 0
  /\ LoRaRead(pkt, 1) = local
  /\ LoRaRead(pkt, 2) = peer

----------------------------------------------------------------------------
(* The boards *)

Boards == {"actuator_inter", "actuator_ultra", "command_inter",
           "actuator_prelim", "command_prelim"}

NoShadow == [opcode |-> 0, rcv_opcode |-> 0, rcv_sw |-> <<0, 0, 0>>, pins |-> <<0, 0, 0>>]
NoBench == [fn |-> "none"]
NoLink == [on |-> FALSE]
NoWindow == [on |-> FALSE]
NothingShown == [text |-> <<>>, from |-> <<>>]

InitBoard ==
  /\ pc = "setup"
  /\ set_up_success = 0
  /\ loop_fail_once = 0
  /\ handler = FALSE
  /\ millis = 0
  /\ last_send_time = 0
  /\ interval = INIT_INTERVAL
  /\ opcode = 0
  /\ rcv_opcode = 0
  /\ rcv_sw = <<0, 0, 0>>
  /\ pins = <<0, 0, 0>>
  /\ pin_written = FALSE
  /\ tx = <<>>
  /\ sent_at = -1
  /\ fill_pres_str = <<>>
  /\ dump_pres_str = <<>>
  /\ check_pres_str = <<>>
  /\ rx_src = <<>>
  /\ shown = <<NothingShown, NothingShown, NothingShown>>

Init ==
  /\ board \in Boards
  /\ InitBoard
  /\ sh = NoShadow
  /\ bench = NoBench
  /\ link = NoLink
  /\ win = NoWindow

CallbackActuators == {"actuator_inter", "actuator_ultra"}
CallbackBoards == CallbackActuators \cup {"command_inter"}

\* setup(): LoRa.begin fails or succeeds; on success the callback boards
\* register onReceive and enter receive mode.
Setup ==
  /\ pc = "setup"
  /\ \E begin_ok \in BOOLEAN :
       IF begin_ok
       THEN /\ set_up_success' = 1
            /\ handler' = (board \in CallbackBoards)
       ELSE UNCHANGED <<set_up_success, handler>>
  /\ pc' = "loop"
  /\ UNCHANGED <<board, loop_fail_once, timerVars, opcode, latchVars, tx,
                 sensorVars, shown>>

\* loop() once loop_fail_once is set: returns at once
LoopFailed ==
  /\ pc = "loop"
  /\ loop_fail_once # 0
  /\ UNCHANGED boardVars

\* loop() after a failed setup(): sets loop_fail_once and returns
LoopFailOnce ==
  /\ pc = "loop"
  /\ loop_fail_once = 0
  /\ set_up_success = 0
  /\ loop_fail_once' = 1
  /\ UNCHANGED <<board, pc, set_up_success, handler, timerVars, opcode,
                 latchVars, tx, sensorVars, shown>>

\* loop() that goes on without looking at set_up_success
LoopRuns_ignores_setup == pc = "loop" /\ loop_fail_once = 0

\* loop() gets past its two checks
LoopRuns == pc = "loop" /\ loop_fail_once = 0 /\ set_up_success # 0

\* the clock step of a paired run: the time after which every interval has
\* run out
LinkClockStep == INTERVAL_BASE + RANDOM_MAX
\* millis() counts modulo 2^32; the model's clock counts modulo ClockWrap, the
\* first multiple of LinkClockStep above MaxMillis
ClockWrap == ((MaxMillis \div LinkClockStep) + 1) * LinkClockStep

\* millis() - last_send_time, in the unsigned arithmetic of the clock
Elapsed(now, last) == (now - last) % ClockWrap

\* the send condition of loop() with >= where it has >
SendDue_at_equal == Elapsed(millis, last_send_time) >= interval

\* the send condition of loop()
SendDue == Elapsed(millis, last_send_time) > interval

\* time passes: at the clock's grain only an idle loop and a transmission
\* take time
Advance ==
  /\ board \in CallbackBoards
  /\ pc \in {"loop", "stamp"}
  /\ \E d \in ClockSteps :
       /\ millis + d <= MaxMillis
       /\ millis' = millis + d
  /\ UNCHANGED <<board, pc, flagVars, last_send_time, interval, sent_at,
                 opcode, latchVars, tx, sensorVars, shown>>

\* loop() of a timed board when the send condition is false
LoopIdle ==
  /\ board \in CallbackBoards
  /\ LoopRuns
  /\ ~SendDue
  /\ UNCHANGED boardVars

\* the statements after the send with interval = random(1000) + 1000
Stamp_base_1000 ==
  /\ pc = "stamp"
  /\ last_send_time' = millis
  /\ \E r \in RandomDraws : interval' = r + 2 * INTERVAL_BASE
  /\ pc' = IF board \in CallbackActuators THEN "actuate" ELSE "print_fill"
  /\ UNCHANGED <<board, flagVars, millis, sent_at, opcode, latchVars, tx,
                 sensorVars, shown>>

\* the statements after the send: last_send_time = millis();
\* interval = random(1000) + 500; LoRa.receive()
Stamp ==
  /\ pc = "stamp"
  /\ last_send_time' = millis
  /\ \E r \in RandomDraws : interval' = r + INTERVAL_BASE
  /\ pc' = IF board \in CallbackActuators THEN "actuate" ELSE "print_fill"
  /\ UNCHANGED <<board, flagVars, millis, sent_at, opcode, latchVars, tx,
                 sensorVars, shown>>

(* Pressure actuator (callback-driven) *)

\* loop() when the send condition holds: read the transducers, sendMessage
ActuatorSend ==
  /\ board = "actuator_inter"
  /\ LoopRuns
  /\ SendDue
  /\ \E r \in SensorReadings : tx' = sendMessage_actuator(r[1], r[2], r[3])
  /\ sent_at' = millis
  /\ pc' = "stamp"
  /\ UNCHANGED <<board, flagVars, millis, last_send_time, interval, opcode,
                 latchVars, sensorVars, shown>>

\* LED_actuation(opcode) up to its first digitalWrite: the latch and the
\* three decoded levels
ActuatorLatch ==
  /\ pc = "actuate"
  /\ LET r == IF board = "actuator_ultra"
              THEN LED_actuation_ultra(opcode, rcv_opcode)
              ELSE LED_actuation(opcode, rcv_opcode)
     IN /\ rcv_opcode' = r.rcv_opcode
        /\ rcv_sw' = <<r.fill, r.dump, r.check>>
  /\ pc' = "write_fill"
  /\ UNCHANGED <<board, flagVars, timerVars, opcode, pins, pin_written, tx,
                 sensorVars, shown>>

\* digitalWrite(FILL_COMND, rcv_fill_sw_state)
WriteFill ==
  /\ pc = "write_fill"
  /\ pins' = [pins EXCEPT ![1] = rcv_sw[1]]
  /\ pin_written' = TRUE
  /\ pc' = "write_dump"
  /\ UNCHANGED <<board, flagVars, timerVars, opcode, rcv_opcode, rcv_sw, tx,
                 sensorVars, shown>>

\* digitalWrite(DUMP_COMND, rcv_dump_sw_state)
WriteDump ==
  /\ pc = "write_dump"
  /\ pins' = [pins EXCEPT ![2] = rcv_sw[2]]
  /\ pin_written' = TRUE
  /\ pc' = "write_check"
  /\ UNCHANGED <<board, flagVars, timerVars, opcode, rcv_opcode, rcv_sw, tx,
                 sensorVars, shown>>

\* digitalWrite(CHECK_COMND, rcv_check_sw_state); LED_actuation returns
WriteCheck ==
  /\ pc = "write_check"
  /\ pins' = [pins EXCEPT ![3] = rcv_sw[3]]
  /\ pin_written' = TRUE
  /\ pc' = "loop"
  /\ UNCHANGED <<board, flagVars, timerVars, opcode, rcv_opcode, rcv_sw, tx,
                 sensorVars, shown>>

\* whether the radio raises the receive interrupt: the callback is
\* registered and the radio is back in receive mode
Listening == handler /\ pc \notin {"setup", "stamp"}

\* the receive interrupt of the pressure actuator: onReceive(packet_size)
ActuatorReceive(pkt) ==
  /\ board = "actuator_inter"
  /\ Listening
  /\ LET g == onReceive_actuator(pkt, [opcode |-> opcode,
                                        rcv_opcode |-> rcv_opcode,
                                        pins |-> pins])
     IN /\ opcode' = g.opcode
        /\ rcv_opcode' = g.rcv_opcode
        /\ pins' = g.pins
  /\ UNCHANGED <<board, pc, flagVars, timerVars, rcv_sw, pin_written, tx,
                 sensorVars, shown>>

(* Ultrasonic actuator (callback-driven); LED_actuation and its three       *)
(* digitalWrite are the steps ActuatorLatch to WriteCheck                   *)

\* loop() when the send condition holds: ultrasonic_reading, sendMessage
UltraSend ==
  /\ board = "actuator_ultra"
  /\ LoopRuns
  /\ SendDue
  /\ \E duration \in EchoDurations :
       tx' = sendMessage_ultra(DistanceString(duration))
  /\ sent_at' = millis
  /\ pc' = "stamp"
  /\ UNCHANGED <<board, flagVars, millis, last_send_time, interval, opcode,
                 latchVars, sensorVars, shown>>

\* the receive interrupt of the ultrasonic actuator: onReceive(packet_size)
UltraReceive(pkt) ==
  /\ board = "actuator_ultra"
  /\ Listening
  /\ LET g == onReceive_ultra(pkt, [opcode |-> opcode,
                                     rcv_opcode |-> rcv_opcode,
                                     pins |-> pins])
     IN /\ opcode' = g.opcode
        /\ rcv_opcode' = g.rcv_opcode
        /\ pins' = g.pins
  /\ UNCHANGED <<board, pc, flagVars, timerVars, rcv_sw, pin_written, tx,
                 sensorVars, shown>>

(* Command unit (callback-driven) *)

\* loop() when the send condition holds: opcode_generator, sendMessage
CommandSend ==
  /\ board = "command_inter"
  /\ LoopRuns
  /\ SendDue
  /\ \E sw \in SwitchReadings :
       /\ opcode' = opcode_generator(sw[1], sw[2], sw[3])
       /\ tx' = sendMessage_command(opcode')
  /\ sent_at' = millis
  /\ pc' = "stamp"
  /\ UNCHANGED <<board, flagVars, millis, last_send_time, interval, latchVars,
                 sensorVars, shown>>

\* Serial.println("fill_pres: " + fill_pres_str)
PrintFill ==
  /\ pc = "print_fill"
  /\ shown' = [shown EXCEPT ![1] = [text |-> fill_pres_str, from |-> rx_src]]
  /\ pc' = "print_dump"
  /\ UNCHANGED <<board, flagVars, timerVars, opcode, latchVars, tx,
                 sensorVars>>

\* Serial.println("dump_pres: " + dump_pres_str)
PrintDump ==
  /\ pc = "print_dump"
  /\ shown' = [shown EXCEPT ![2] = [text |-> dump_pres_str, from |-> rx_src]]
  /\ pc' = "print_check"
  /\ UNCHANGED <<board, flagVars, timerVars, opcode, latchVars, tx,
                 sensorVars>>

\* Serial.println("check_pres: " + check_pres_str)
PrintCheck ==
  /\ pc = "print_check"
  /\ shown' = [shown EXCEPT ![3] = [text |-> check_pres_str, from |-> rx_src]]
  /\ pc' = "printed"
  /\ UNCHANGED <<board, flagVars, timerVars, opcode, latchVars, tx,
                 sensorVars>>

\* the iteration of loop() ends; what it read is gone
PrintDone ==
  /\ pc = "printed"
  /\ shown' = <<NothingShown, NothingShown, NothingShown>>
  /\ pc' = "loop"
  /\ UNCHANGED <<board, flagVars, timerVars, opcode, latchVars, tx,
                 sensorVars>>

\* the receive interrupt of the command unit: onReceive(packet_size)
CommandReceive(pkt) ==
  /\ board = "command_inter"
  /\ Listening
  /\ LET strs == onReceive_command(pkt, <<fill_pres_str, dump_pres_str, check_pres_str>>)
     IN /\ fill_pres_str' = strs[1]
        /\ dump_pres_str' = strs[2]
        /\ check_pres_str' = strs[3]
  /\ rx_src' = IF Accepted(pkt, CMD_LOCAL, CMD_DEST) THEN pkt ELSE rx_src
  /\ UNCHANGED <<board, pc, flagVars, timerVars, opcode, latchVars, tx,
                 shown>>

(* Polling actuator and polling command unit *)

\* packets the polling actuator can find in the radio; <<>> is none
PolledPackets == OpcodePackets \cup { <<b>> : b \in OpcodeBytes }

\* loop() of the polling actuator: parsePacket, and on a packet
\* encoded_message = LoRa.read() and LED_actuation up to its first digitalWrite
PrelimActuatorLoop ==
  /\ board = "actuator_prelim"
  /\ LoopRuns
  /\ \E pkt \in PolledPackets :
       LET packet_size == Len(pkt)
       IN IF packet_size # 0
          THEN LET r == LED_actuation_prelim(LoRaRead(pkt, 1), rcv_opcode)
               IN /\ opcode' = LoRaRead(pkt, 1)
                  /\ rcv_opcode' = r.rcv_opcode
                  /\ rcv_sw' = <<r.fill, r.dump, r.check>>
                  /\ pc' = "write_fill"
          ELSE UNCHANGED <<opcode, rcv_opcode, rcv_sw, pc>>
  /\ UNCHANGED <<board, flagVars, timerVars, pins, pin_written, tx,
                 sensorVars, shown>>

\* loop() of the polling command unit: command_message, then the one-byte packet
PrelimCommandLoop ==
  /\ board = "command_prelim"
  /\ LoopRuns
  /\ \E sw \in SwitchReadings :
       /\ opcode' = command_message(sw[1], sw[2], sw[3])
       /\ tx' = <<opcode'>>
  /\ sent_at' = millis
  /\ UNCHANGED <<board, pc, flagVars, millis, last_send_time, interval,
                 latchVars, sensorVars, shown>>

\* the bench and the shadow are not part of a running board
Apart == UNCHANGED <<bench, sh, link, win>>

\* a board running its sketch against whatever the radio, the switches, the
\* transducers and the clock present
Next ==
  \/ Setup /\ Apart
  \/ LoopFailed /\ Apart
  \/ LoopFailOnce /\ Apart
  \/ Advance /\ Apart
  \/ LoopIdle /\ Apart
  \/ Stamp /\ Apart
  \/ ActuatorSend /\ Apart
  \/ ActuatorLatch /\ Apart
  \/ WriteFill /\ Apart
  \/ WriteDump /\ Apart
  \/ WriteCheck /\ Apart
  \/ \E pkt \in OpcodePackets : ActuatorReceive(pkt) /\ Apart
  \/ UltraSend /\ Apart
  \/ \E pkt \in OpcodePackets : UltraReceive(pkt) /\ Apart
  \/ CommandSend /\ Apart
  \/ PrintFill /\ Apart
  \/ PrintDump /\ Apart
  \/ PrintCheck /\ Apart
  \/ PrintDone /\ Apart
  \/ \E pkt \in SensorPackets : CommandReceive(pkt) /\ Apart
  \/ PrelimActuatorLoop /\ Apart
  \/ PrelimCommandLoop /\ Apart

Spec == Init /\ [][Next]_vars

----------------------------------------------------------------------------
(* The function bench: one function of the sketches applied once to inputs *)
(* drawn from bounded sets.  bench.done tells whether it has been applied. *)

\* text of up to this many characters is drawn for the sensor payload
MaxTextLen == 3

SeqsUpTo(S, n) == UNION { [1..k -> S] : k \in 0..n }

\* headers the bench draws: both addresses, a foreign byte and 255
BenchAddrBytes == {ACT_LOCAL, ACT_DEST, 0, NO_BYTE}
BenchOpcodePackets ==
  LET full == { <<r, s, b>> \o [i \in 1..(MaxPacketLen - 3) |-> 0] :
                  r \in BenchAddrBytes, s \in BenchAddrBytes, b \in OpcodeBytes }
  IN { SubSeq(p, 1, n) : p \in full, n \in 0..MaxPacketLen }
\* the actuator's globals before the handler runs: any opcode, a retained
\* code the latch lets through, and its levels on the pins
BenchActuatorGlobals ==
  { [opcode |-> o, rcv_opcode |-> l,
     pins |-> <<BitOf(l, 2), BitOf(l, 1), BitOf(l, 0)>>] :
      o \in OpcodeBytes, l \in OpcodeBytes \ UNSAFE }

BenchTexts ==
  SensorTexts \cup SeqsUpTo({49, SEPARATOR}, MaxTextLen)
    \cup { <<49, SEPARATOR, 50, SEPARATOR, 51, SEPARATOR, 52>>, <<53>> }
BenchSensorPackets ==
  { <<>> } \cup { <<r>> : r \in BenchAddrBytes }
    \cup { <<r, s>> \o t : r \in BenchAddrBytes, s \in BenchAddrBytes, t \in BenchTexts }
\* the command unit's Strings before the handler runs
BenchSensorGlobals ==
  { <<<<>>, <<>>, <<>>>>, <<<<49>>, <<50>>, <<51>>>>, <<<<55>>, <<>>, <<56, SEPARATOR>>>> }

\* analogRead values the bench hands to sendMessage
BenchReadings == {0, 7, 512, 1023}
NoLevels == [rcv_opcode |-> 0, fill |-> 0, dump |-> 0, check |-> 0]

BenchInit ==
  /\ board = "bench"
  /\ InitBoard
  /\ sh = NoShadow
  /\ link = NoLink
  /\ win = NoWindow
  /\ \/ \E c \in Byte, l \in Byte, f \in {"LED_actuation", "LED_actuation_prelim"} :
          bench = [fn |-> f, code |-> c, latched |-> l, done |-> FALSE,
                   out |-> [rcv_opcode |-> l, fill |-> 0, dump |-> 0, check |-> 0]]
     \/ \E p \in BenchOpcodePackets, g \in BenchActuatorGlobals :
          bench = [fn |-> "onReceive_actuator", pkt |-> p, g |-> g,
                   done |-> FALSE, out |-> g]
     \/ \E p \in BenchSensorPackets, g \in BenchSensorGlobals :
          bench = [fn |-> "onReceive_command", pkt |-> p, g |-> g,
                   done |-> FALSE, out |-> g]
     \/ \E p \in BenchOpcodePackets \cup PolledPackets, g \in BenchActuatorGlobals,
            f \in {"onReceive_ultra", "loop_prelim"} :
          bench = [fn |-> f, pkt |-> p, g |-> g, done |-> FALSE, out |-> g]
     \/ \E c \in Byte, sw \in SwitchReadings :
          bench = [fn |-> "codec", code |-> c, sw |-> sw, done |-> FALSE,
                   out |-> [bits |-> <<0, 0, 0>>, packed |-> 0,
                            bits_again |-> <<0, 0, 0>>, sum |-> 0]]
     \/ \E d \in BenchReadings \X BenchReadings \X BenchReadings :
          bench = [fn |-> "sensor_round_trip", data |-> d, done |-> FALSE,
                   out |-> <<<<>>, <<>>, <<>>>>]
     \/ \E c \in Byte, l \in Byte :
          bench = [fn |-> "LED_actuation_twice", code |-> c, latched |-> l,
                   calls |-> 0, done |-> FALSE, out |-> NoLevels,
                   out2 |-> NoLevels]
     \/ \E c \in Byte, f \in {"state_determination", "state_determination_command"} :
          bench = [fn |-> f, code |-> c, done |-> FALSE, out |-> ""]
     \/ \E c \in Byte, d \in SensorReadings, e \in EchoDurations :
          bench = [fn |-> "pairing", code |-> c, data |-> d, duration |-> e,
                   done |-> FALSE, out |-> <<>>]
     \/ \E c \in Byte, l \in Byte :
          bench = [fn |-> "LED_actuation_three", code |-> c, latched |-> l,
                   done |-> FALSE, out |-> <<NoLevels, NoLevels, NoLevels>>]

BenchLatch ==
  /\ bench.fn = "LED_actuation"
  /\ ~bench.done
  /\ bench' = [bench EXCEPT !.done = TRUE,
                            !.out = LED_actuation(bench.code, bench.latched)]
  /\ UNCHANGED <<boardVars, sh, link, win>>

BenchLatchPrelim ==
  /\ bench.fn = "LED_actuation_prelim"
  /\ ~bench.done
  /\ bench' = [bench EXCEPT !.done = TRUE,
                            !.out = LED_actuation_prelim(bench.code, bench.latched)]
  /\ UNCHANGED <<boardVars, sh, link, win>>

BenchReceiveActuator ==
  /\ bench.fn = "onReceive_actuator"
  /\ ~bench.done
  /\ bench' = [bench EXCEPT !.done = TRUE,
                            !.out = onReceive_actuator(bench.pkt, bench.g)]
  /\ UNCHANGED <<boardVars, sh, link, win>>

BenchReceiveCommand ==
  /\ bench.fn = "onReceive_command"
  /\ ~bench.done
  /\ bench' = [bench EXCEPT !.done = TRUE,
                            !.out = onReceive_command(bench.pkt, bench.g)]
  /\ UNCHANGED <<boardVars, sh, link, win>>

BenchReceiveUltra ==
  /\ bench.fn = "onReceive_ultra"
  /\ ~bench.done
  /\ bench' = [bench EXCEPT !.done = TRUE,
                            !.out = onReceive_ultra(bench.pkt, bench.g)]
  /\ UNCHANGED <<boardVars, sh, link, win>>

BenchPollPrelim ==
  /\ bench.fn = "loop_prelim"
  /\ ~bench.done
  /\ bench' = [bench EXCEPT !.done = TRUE,
                            !.out = loop_prelim(bench.pkt, bench.g)]
  /\ UNCHANGED <<boardVars, sh, link, win>>

\* the three levels of a code, the code opcode_generator makes of them, its
\* levels again; and the code opcode_generator makes of the switch levels
BenchCodec ==
  /\ bench.fn = "codec"
  /\ ~bench.done
  /\ LET bits == decode(bench.code)
         packed == opcode_generator(bits[1], bits[2], bits[3])
     IN bench' = [bench EXCEPT
                    !.done = TRUE,
                    !.out = [bits |-> bits, packed |-> packed,
                             bits_again |-> decode(packed),
                             sum |-> opcode_generator(bench.sw[1], bench.sw[2],
                                                      bench.sw[3])]]
  /\ UNCHANGED <<boardVars, sh, link, win>>

\* the frame sendMessage makes of three readings, handed to the command
\* unit's onReceive
BenchRoundTrip ==
  /\ bench.fn = "sensor_round_trip"
  /\ ~bench.done
  /\ bench' = [bench EXCEPT
                 !.done = TRUE,
                 !.out = onReceive_command(
                           sendMessage_actuator(bench.data[1], bench.data[2],
                                                bench.data[3]),
                           <<<<>>, <<>>, <<>>>>)]
  /\ UNCHANGED <<boardVars, sh, link, win>>

\* LED_actuation called with a code
BenchLatchFirst ==
  /\ bench.fn = "LED_actuation_twice"
  /\ bench.calls = 0
  /\ bench' = [bench EXCEPT !.calls = 1,
                            !.out = LED_actuation(bench.code, bench.latched)]
  /\ UNCHANGED <<boardVars, sh, link, win>>

\* LED_actuation called again with the same code
BenchLatchSecond ==
  /\ bench.fn = "LED_actuation_twice"
  /\ bench.calls = 1
  /\ bench' = [bench EXCEPT !.calls = 2,
                            !.done = TRUE,
                            !.out2 = LED_actuation(bench.code, bench.out.rcv_opcode)]
  /\ UNCHANGED <<boardVars, sh, link, win>>

BenchClassify ==
  /\ bench.fn = "state_determination"
  /\ ~bench.done
  /\ bench' = [bench EXCEPT !.done = TRUE,
                            !.out = state_determination(bench.code)]
  /\ UNCHANGED <<boardVars, sh, link, win>>

BenchClassifyCommand ==
  /\ bench.fn = "state_determination_command"
  /\ ~bench.done
  /\ bench' = [bench EXCEPT !.done = TRUE,
                            !.out = state_determination_command(bench.code)]
  /\ UNCHANGED <<boardVars, sh, link, win>>

\* LED_actuation of the pressure actuator, of the ultrasonic actuator and
\* of the polling actuator on the same code and the same retained code
BenchLatchThree ==
  /\ bench.fn = "LED_actuation_three"
  /\ ~bench.done
  /\ bench' = [bench EXCEPT
                 !.done = TRUE,
                 !.out = <<LED_actuation(bench.code, bench.latched),
                           LED_actuation_ultra(bench.code, bench.latched),
                           LED_actuation_prelim(bench.code, bench.latched)>>]
  /\ UNCHANGED <<boardVars, sh, link, win>>

\* globals the pairing bench gives the handlers: an opcode other than the
\* one sent, and Strings no frame leaves behind
PairingActuatorGlobals(code) ==
  [opcode |-> (code + 1) % 256, rcv_opcode |-> 0, pins |-> <<0, 0, 0>>]
PairingSensorGlobals == <<<<49>>, <<50>>, <<51>>>>

\* each unit's sendMessage builds a frame; the frame is handed to onReceive
\* of the unit across the link and to onReceive of the unit that built it
BenchPairing ==
  /\ bench.fn = "pairing"
  /\ ~bench.done
  /\ LET from_command == sendMessage_command(bench.code)
         from_actuator == sendMessage_actuator(bench.data[1], bench.data[2],
                                               bench.data[3])
         from_ultra == sendMessage_ultra(DistanceString(bench.duration))
         g == PairingActuatorGlobals(bench.code)
     IN bench' = [bench EXCEPT
          !.done = TRUE,
          !.out = [ from_command |-> from_command,
                    from_actuator |-> from_actuator,
                    from_ultra |-> from_ultra,
                    command_at_actuator |-> onReceive_actuator(from_command, g),
                    command_at_ultra |-> onReceive_ultra(from_command, g),
                    command_at_command |->
                      onReceive_command(from_command, PairingSensorGlobals),
                    actuator_at_command |->
                      onReceive_command(from_actuator, PairingSensorGlobals),
                    ultra_at_command |->
                      onReceive_command(from_ultra, PairingSensorGlobals),
                    actuator_at_actuator |-> onReceive_actuator(from_actuator, g),
                    ultra_at_ultra |-> onReceive_ultra(from_ultra, g) ]]
  /\ UNCHANGED <<boardVars, sh, link, win>>

BenchNext ==
  \/ BenchLatch
  \/ BenchLatchPrelim
  \/ BenchReceiveActuator
  \/ BenchReceiveCommand
  \/ BenchReceiveUltra
  \/ BenchPollPrelim
  \/ BenchCodec
  \/ BenchRoundTrip
  \/ BenchLatchFirst
  \/ BenchLatchSecond
  \/ BenchClassify
  \/ BenchClassifyCommand
  \/ BenchLatchThree
  \/ BenchPairing

SpecBench == BenchInit /\ [][BenchNext]_vars

----------------------------------------------------------------------------
(* The pressure actuator run beside its shadow: the same board, clock and  *)
(* draws, except that the shadow never receives the packets the actuator   *)
(* rejects (wrong address, shorter than the header, unsafe opcode).        *)

ShadowPackets ==
  { <<ACT_LOCAL>> }
    \cup { <<r, s, b>> : r \in AddrBytes, s \in AddrBytes, b \in {2, 5, 7} }

RejectedPacket(pkt) ==
  \/ Len(pkt) < 2
  \/ pkt[1] # ACT_LOCAL
  \/ pkt[2] # ACT_DEST
  \/ LoRaRead(pkt, 3) \in UNSAFE

ShadowInit ==
  /\ board = "actuator_inter"
  /\ InitBoard
  /\ sh = NoShadow
  /\ bench = NoBench
  /\ link = NoLink
  /\ win = NoWindow

ShadowKeeps == UNCHANGED <<bench, sh, link, win>>

ShadowLatch ==
  /\ ActuatorLatch
  /\ LET r == LED_actuation(sh.opcode, sh.rcv_opcode)
     IN sh' = [sh EXCEPT !.rcv_opcode = r.rcv_opcode,
                         !.rcv_sw = <<r.fill, r.dump, r.check>>]
  /\ UNCHANGED <<bench, link, win>>

ShadowWriteFill ==
  /\ WriteFill
  /\ sh' = [sh EXCEPT !.pins[1] = sh.rcv_sw[1]]
  /\ UNCHANGED <<bench, link, win>>

ShadowWriteDump ==
  /\ WriteDump
  /\ sh' = [sh EXCEPT !.pins[2] = sh.rcv_sw[2]]
  /\ UNCHANGED <<bench, link, win>>

ShadowWriteCheck ==
  /\ WriteCheck
  /\ sh' = [sh EXCEPT !.pins[3] = sh.rcv_sw[3]]
  /\ UNCHANGED <<bench, link, win>>

ShadowReceive(pkt) ==
  /\ ActuatorReceive(pkt)
  /\ sh' = IF RejectedPacket(pkt)
           THEN sh
           ELSE LET g == onReceive_actuator(pkt, [opcode |-> sh.opcode,
                                                  rcv_opcode |-> sh.rcv_opcode,
                                                  pins |-> sh.pins])
                IN [sh EXCEPT !.opcode = g.opcode,
                              !.rcv_opcode = g.rcv_opcode,
                              !.pins = g.pins]
  /\ UNCHANGED <<bench, link, win>>

ShadowNext ==
  \/ Setup /\ ShadowKeeps
  \/ LoopFailed /\ ShadowKeeps
  \/ LoopFailOnce /\ ShadowKeeps
  \/ Advance /\ ShadowKeeps
  \/ LoopIdle /\ ShadowKeeps
  \/ Stamp /\ ShadowKeeps
  \/ ActuatorSend /\ ShadowKeeps
  \/ ShadowLatch
  \/ ShadowWriteFill
  \/ ShadowWriteDump
  \/ ShadowWriteCheck
  \/ \E pkt \in ShadowPackets : ShadowReceive(pkt)

SpecShadow == ShadowInit /\ [][ShadowNext]_vars

----------------------------------------------------------------------------
(* The paired run: the pressure actuator (the board variables) and, in     *)
(* link, the command unit it is paired with, the switches the command unit *)
(* reads and the one frame on the air from the command unit.  Both units   *)
(* were powered together and read the same clock.  The command unit has    *)
(* come out of setup() with the radio up.  The radio delivers a frame      *)
(* intact or loses it.  link.air_sw, link.rx_sw and link.arg_sw are not    *)
(* state of a sketch: they remember the switch levels behind the frame on  *)
(* the air, behind the opcode last accepted and behind the code last       *)
(* handed to LED_actuation, and link.lost tells whether a frame was lost.  *)
(* In one run the operator moves the switches once, at any moment, from    *)
(* where they are to the position link.to.                                 *)

\* where the switches are at power-up: dumping, or all three on
LinkStartPositions == { <<0, 1, 0>>, <<1, 1, 1>> }
\* values random(1000) is drawn from on the command unit of a paired run
LinkDraws == {RANDOM_MAX \div 2}

LinkInit ==
  /\ board = "actuator_inter"
  /\ InitBoard
  /\ sh = NoShadow
  /\ bench = NoBench
  /\ win = NoWindow
  /\ \E s \in LinkStartPositions :
     \E t \in SwitchReadings \ {s} :
       link = [on |-> TRUE, sw |-> s, to |-> t, c_pc |-> "loop", c_last |-> 0,
               c_interval |-> INIT_INTERVAL, air |-> <<>>,
               air_sw |-> <<>>, rx_sw |-> <<>>, arg_sw |-> <<>>,
               lost |-> FALSE]

LinkKeeps == UNCHANGED <<bench, sh, link, win>>

\* the operator moves the switches
LinkSwitch ==
  /\ link.sw # link.to
  /\ link' = [link EXCEPT !.sw = link.to]
  /\ UNCHANGED <<boardVars, bench, sh, win>>

\* the send condition of the command unit's loop()
LinkCommandDue == Elapsed(millis, link.c_last) > link.c_interval

\* loop() of the command unit when the send condition holds:
\* opcode_generator on the switches, sendMessage
LinkCommandSend ==
  /\ link.c_pc = "loop"
  /\ LinkCommandDue
  /\ LET code == opcode_generator(link.sw[1], link.sw[2], link.sw[3])
     IN link' = [link EXCEPT !.air = sendMessage_command(code),
                             !.air_sw = link.sw,
                             !.c_pc = "stamp"]
  /\ UNCHANGED <<boardVars, bench, sh, win>>

\* the command unit after its send: last_send_time = millis();
\* interval = random(1000) + 500; LoRa.receive() and the prints
LinkCommandStamp ==
  /\ link.c_pc = "stamp"
  /\ \E r \in LinkDraws :
       link' = [link EXCEPT !.c_last = millis,
                            !.c_interval = r + INTERVAL_BASE,
                            !.c_pc = "loop"]
  /\ UNCHANGED <<boardVars, bench, sh, win>>

\* a unit is in an iteration of loop() that sends, or about to start one
LinkBusy ==
  \/ pc \notin {"loop"}
  \/ pc = "loop" /\ loop_fail_once = 0 /\ (set_up_success = 0 \/ SendDue)
  \/ link.c_pc = "stamp"
  \/ link.c_pc = "loop" /\ LinkCommandDue

\* the clock moves on by one step; an iteration of loop(), its transmission
\* included, is short beside the step
LinkTick ==
  /\ ~LinkBusy
  /\ millis' = (millis + LinkClockStep) % ClockWrap
  /\ UNCHANGED <<board, pc, flagVars, last_send_time, interval, sent_at,
                 opcode, latchVars, tx, sensorVars, shown>>
  /\ LinkKeeps

\* the frame on the air reaches the actuator's radio while it listens
LinkDeliver ==
  /\ link.air # <<>>
  /\ ActuatorReceive(link.air)
  /\ link' = [link EXCEPT !.air = <<>>,
                          !.air_sw = <<>>,
                          !.rx_sw = IF Accepted(link.air, ACT_LOCAL, ACT_DEST)
                                    THEN link.air_sw
                                    ELSE link.rx_sw]
  /\ UNCHANGED <<bench, sh, win>>

\* the frame on the air is lost
LinkLose ==
  /\ link.air # <<>>
  /\ link' = [link EXCEPT !.air = <<>>, !.air_sw = <<>>, !.lost = TRUE]
  /\ UNCHANGED <<boardVars, bench, sh, win>>

\* LED_actuation(opcode) in the paired run
LinkLatch ==
  /\ ActuatorLatch
  /\ link' = [link EXCEPT !.arg_sw = link.rx_sw]
  /\ UNCHANGED <<bench, sh, win>>

\* the steps of the actuator's main program
LinkActuatorRuns ==
  \/ Setup /\ LinkKeeps
  \/ LoopFailOnce /\ LinkKeeps
  \/ ActuatorSend /\ LinkKeeps
  \/ Stamp /\ LinkKeeps
  \/ LinkLatch
  \/ WriteFill /\ LinkKeeps
  \/ WriteDump /\ LinkKeeps
  \/ WriteCheck /\ LinkKeeps

\* the steps of the command unit's main program
LinkCommandRuns == LinkCommandSend \/ LinkCommandStamp

LinkNext ==
  \/ LinkActuatorRuns
  \/ LinkCommandRuns
  \/ LinkSwitch
  \/ LinkTick
  \/ LinkDeliver
  \/ LinkLose

\* loop() is called again and again on both units and the clock goes on
LinkFair ==
  /\ WF_vars(LinkActuatorRuns)
  /\ WF_vars(LinkCommandRuns)
  /\ WF_vars(LinkTick)

SpecLink == LinkInit /\ [][LinkNext]_vars /\ LinkFair

----------------------------------------------------------------------------
(* The pressure actuator with LED_actuation taken statement by statement:  *)
(* the call copies the global opcode into the parameter code, and the      *)
(* receive interrupt can fall before the call, between any two of its      *)
(* statements and after it.  win.code is the parameter.  win.heard,        *)
(* win.called and win.held are not state of the sketch: the opcodes of the *)
(* packets accepted since the call of LED_actuation before the last one    *)
(* accepted (the last of them and the one before it), whether              *)
(* LED_actuation has been called since the last one was accepted, and what *)
(* the retained code was when LED_actuation was last called.               *)

\* the opcodes the command unit can make: three bits
WindowOpcodes == 0..7
\* packets on the air towards the actuator: every opcode of the command unit
\* under the right header, and packets the address check turns away
WindowPackets ==
  { <<ACT_LOCAL, ACT_DEST, b>> : b \in WindowOpcodes }
    \cup { <<ACT_LOCAL, ACT_LOCAL, 5>> }

WindowInit ==
  /\ board = "actuator_inter"
  /\ InitBoard
  /\ sh = NoShadow
  /\ bench = NoBench
  /\ link = NoLink
  /\ win = [on |-> TRUE, code |-> 0, heard |-> <<>>, called |-> FALSE,
            held |-> 0]

WindowKeeps == UNCHANGED <<bench, sh, link, win>>

\* the last entry of a list and the one before it
Latest(seq) == IF Len(seq) > 2 THEN Tail(seq) ELSE seq

\* LED_actuation(opcode): the call; the argument is copied into code
LatchCall ==
  /\ pc = "actuate"
  /\ win' = [win EXCEPT !.code = opcode, !.called = TRUE, !.held = rcv_opcode]
  /\ pc' = "latch_test"
  /\ UNCHANGED <<board, flagVars, timerVars, opcode, latchVars, tx,
                 sensorVars, shown, bench, sh, link>>

\* LED_actuation whose statements read the global opcode where they have code
CodeRead_global == opcode

\* what a statement of LED_actuation reads when it names code
CodeRead == win.code

\* if ((code==1) || (code==3) || (code==6) || (code==7))
LatchTest ==
  /\ pc = "latch_test"
  /\ pc' = IF (CodeRead = 1) \/ (CodeRead = 3) \/ (CodeRead = 6) \/ (CodeRead = 7)
           THEN "latch_decode"
           ELSE "latch_assign"
  /\ UNCHANGED <<board, flagVars, timerVars, opcode, latchVars, tx,
                 sensorVars, shown>>
  /\ WindowKeeps

\* else { rcv_opcode = code; }
LatchAssign ==
  /\ pc = "latch_assign"
  /\ rcv_opcode' = CodeRead
  /\ pc' = "latch_decode"
  /\ UNCHANGED <<board, flagVars, timerVars, opcode, rcv_sw, pins,
                 pin_written, tx, sensorVars, shown>>
  /\ WindowKeeps

\* the three shifts of rcv_opcode into rcv_fill_sw_state, rcv_dump_sw_state
\* and rcv_check_sw_state
LatchDecode ==
  /\ pc = "latch_decode"
  /\ rcv_sw' = decode(rcv_opcode)
  /\ pc' = "write_fill"
  /\ UNCHANGED <<board, flagVars, timerVars, opcode, rcv_opcode, pins,
                 pin_written, tx, sensorVars, shown>>
  /\ WindowKeeps

\* the receive interrupt; an accepted packet after a call of LED_actuation
\* opens a new window
WindowReceive(pkt) ==
  /\ ActuatorReceive(pkt)
  /\ win' = IF Accepted(pkt, ACT_LOCAL, ACT_DEST)
            THEN [win EXCEPT
                    !.heard = IF win.called
                              THEN <<LoRaRead(pkt, 3)>>
                              ELSE Latest(Append(win.heard, LoRaRead(pkt, 3))),
                    !.called = FALSE]
            ELSE win
  /\ UNCHANGED <<bench, sh, link>>

WindowNext ==
  \/ Setup /\ WindowKeeps
  \/ LoopFailed /\ WindowKeeps
  \/ LoopFailOnce /\ WindowKeeps
  \/ Advance /\ WindowKeeps
  \/ LoopIdle /\ WindowKeeps
  \/ ActuatorSend /\ WindowKeeps
  \/ Stamp /\ WindowKeeps
  \/ LatchCall
  \/ LatchTest
  \/ LatchAssign
  \/ LatchDecode
  \/ WriteFill /\ WindowKeeps
  \/ WriteDump /\ WindowKeeps
  \/ WriteCheck /\ WindowKeeps
  \/ \E pkt \in WindowPackets : WindowReceive(pkt)

SpecWindow == WindowInit /\ [][WindowNext]_vars

----------------------------------------------------------------------------
(* Properties *)

UnsafePatterns == { <<0, 0, 1>>, <<0, 1, 1>>, <<1, 1, 0>>, <<1, 1, 1>> }
LatchBenches == {"LED_actuation", "LED_actuation_prelim"}

\* C1: on every board the three valve pins never hold the levels of an
\* unsafe code (0,0,1), (0,1,1), (1,1,0) or (1,1,1), whatever packets arrive.
C1_PinsNeverUnsafe == pins \notin UnsafePatterns

\* C2: the latch applied to a code in {1,3,6,7} with any retained code L
\* returns with the retained code still L and the three levels those of L.
C2_LatchRejection ==
  (bench.fn \in LatchBenches /\ bench.done /\ bench.code \in UNSAFE) =>
    /\ bench.out.rcv_opcode = bench.latched
    /\ bench.out.fill = (bench.latched \div 4) % 2
    /\ bench.out.dump = (bench.latched \div 2) % 2
    /\ bench.out.check = bench.latched % 2

\* the latch holding 5 was given 7 and returned
C2_Witness ==
  /\ bench.fn = "LED_actuation"
  /\ bench.done
  /\ bench.code = 7
  /\ bench.latched = 5
  /\ bench.out = [rcv_opcode |-> 5, fill |-> 1, dump |-> 0, check |-> 1]

\* C3: the latch applied to a code in {0,2,4,5} with any retained code
\* returns with the retained code equal to that code and the three levels
\* those of that code.
C3_LatchAcceptance ==
  (bench.fn \in LatchBenches /\ bench.done /\ bench.code \in {0, 2, 4, 5}) =>
    /\ bench.out.rcv_opcode = bench.code
    /\ bench.out.fill = (bench.code \div 4) % 2
    /\ bench.out.dump = (bench.code \div 2) % 2
    /\ bench.out.check = bench.code % 2

\* the latch holding 2 was given 5 and returned
C3_Witness ==
  /\ bench.fn = "LED_actuation"
  /\ bench.done
  /\ bench.code = 5
  /\ bench.latched = 2
  /\ bench.out = [rcv_opcode |-> 5, fill |-> 1, dump |-> 0, check |-> 1]

\* C4: on every board the retained code starts at 0 and is never one of
\* {1,3,6,7}, whatever bytes are received.
C4_LatchedNeverUnsafe == rcv_opcode \notin UNSAFE

\* the polling actuator, holding 5, has just put 7 through the latch
C4_Witness ==
  /\ board = "actuator_prelim"
  /\ pc = "write_fill"
  /\ opcode = 7
  /\ rcv_opcode = 5

HeaderMatches(pkt, local, peer) ==
  Len(pkt) >= 2 /\ pkt[1] = local /\ pkt[2] = peer

\* C5: a packet whose first byte is not the unit's address or whose second
\* byte is not its peer's leaves the globals of the receive handler as they
\* were: the last opcode on the actuator, the three Strings on the command unit.
C5_AddressFilter ==
  /\ (bench.fn = "onReceive_actuator" /\ bench.done
        /\ ~HeaderMatches(bench.pkt, ACT_LOCAL, ACT_DEST)) => bench.out = bench.g
  /\ (bench.fn = "onReceive_command" /\ bench.done
        /\ ~HeaderMatches(bench.pkt, CMD_LOCAL, CMD_DEST)) => bench.out = bench.g

\* the actuator's handler returned from a packet carrying opcode 5 with the
\* right recipient and the wrong sender
C5_Witness ==
  /\ bench.fn = "onReceive_actuator"
  /\ bench.done
  /\ bench.pkt = <<ACT_LOCAL, ACT_LOCAL, 5>>
  /\ bench.g.opcode = 0
  /\ bench.out.opcode = 0

\* C6: a packet of length 0 or 1 leaves the handler's globals as they were:
\* opcode, retained code and pins on the actuator, the three Strings on the
\* command unit.
C6_ShortPacket ==
  (bench.fn \in {"onReceive_actuator", "onReceive_command"} /\ bench.done
      /\ Len(bench.pkt) < 2) => bench.out = bench.g

\* the actuator's handler returned from the one-byte packet holding its own
\* address
C6_Witness ==
  /\ bench.fn = "onReceive_actuator"
  /\ bench.done
  /\ bench.pkt = <<ACT_LOCAL>>
  /\ bench.g.opcode = 5
  /\ bench.out.opcode = 5

\* C7: a rejected packet (wrong address, shorter than the header, unsafe
\* opcode) leaves no trace: the retained code and the pins are at every
\* moment what they are on the shadow, which never received that packet.
C7_RejectedPacketLeavesNoTrace ==
  /\ rcv_opcode = sh.rcv_opcode
  /\ pins = sh.pins

\* the three Strings an accepted packet leaves behind; <<>> stands for the
\* Strings as initialised
FieldsOf(src) ==
  IF src = <<>> THEN <<<<>>, <<>>, <<>>>>
  ELSE ScanSensors(src, 3, 0, <<>>, <<>>, <<>>)

\* C8: the three sensor Strings one iteration of the command loop reads
\* for printing are together the record of one accepted packet, never part
\* of one packet's record and part of another's.
C8_FieldsFromOnePacket ==
  pc = "printed" =>
    \E i \in 1..3 :
      <<shown[1].text, shown[2].text, shown[3].text>> = FieldsOf(shown[i].from)

\* C9: the latch applied to a byte in 8..255 takes it: the retained code
\* becomes that byte and the three levels are its low three bits.
C9_OutOfRangeAccepted ==
  (bench.fn \in LatchBenches /\ bench.done /\ bench.code \in 8..255) =>
    /\ bench.out.rcv_opcode = bench.code
    /\ bench.out.fill = (bench.code \div 4) % 2
    /\ bench.out.dump = (bench.code \div 2) % 2
    /\ bench.out.check = bench.code % 2

\* the latch holding 0 was given 14 and returned with fill and dump both 1
C9_Witness ==
  /\ bench.fn = "LED_actuation"
  /\ bench.done
  /\ bench.code = 14
  /\ bench.latched = 0
  /\ bench.out = [rcv_opcode |-> 14, fill |-> 1, dump |-> 1, check |-> 0]

SetupFailed == pc # "setup" /\ set_up_success = 0

\* C10: once LoRa.begin has failed in setup the board never sends a frame,
\* never has its receive handler registered or run, never writes a valve
\* pin, and stays in that state.
C10_InitFailureFailStop ==
  /\ [](SetupFailed =>
          /\ tx = <<>>
          /\ ~handler
          /\ ~pin_written
          /\ pins = <<0, 0, 0>>
          /\ opcode = 0
          /\ rcv_opcode = 0
          /\ fill_pres_str = <<>> /\ dump_pres_str = <<>> /\ check_pres_str = <<>>
          /\ pc = "loop")
  /\ [][SetupFailed => SetupFailed']_vars

\* setup has failed and loop has run into its check
C10_Witness == SetupFailed /\ loop_fail_once = 1

----------------------------------------------------------------------------
TypeOK ==
  /\ board \in Boards \cup {"bench"}
  /\ opcode \in Byte
  /\ rcv_opcode \in Byte
  /\ pins \in {0, 1} \X {0, 1} \X {0, 1}
  /\ interval \in 0..(INTERVAL_BASE + RANDOM_MAX)

\* the levels of a switch triple packed as fill<<2 | dump<<1 | check
CodeOfLevels(sw) == 4 * sw[1] + 2 * sw[2] + sw[3]

\* C11: in the paired run, when the command unit has sent the code of switch
\* levels (fill, dump, check) that make one of 0, 2, 4, 5, the actuator has
\* accepted that frame and its next LED_actuation has run with it, the three
\* pins are (fill, dump, check) and the retained code is the code sent.
C11_EndToEnd ==
  (/\ link.on
   /\ pc \notin {"write_fill", "write_dump", "write_check"}
   /\ link.arg_sw # <<>>
   /\ CodeOfLevels(link.arg_sw) \in {0, 2, 4, 5}) =>
    /\ pins = link.arg_sw
    /\ rcv_opcode = CodeOfLevels(link.arg_sw)

\* switches at fill=1, dump=0, check=1 have gone through with no frame lost:
\* 5 is retained and on the pins
C11_Witness ==
  /\ link.on
  /\ pc = "loop"
  /\ link.arg_sw = <<1, 0, 1>>
  /\ opcode = 5
  /\ rcv_opcode = 5
  /\ pins = <<1, 0, 1>>
  /\ ~link.lost

\* C14: in the paired run, with both units set up, loop() running on both
\* and the clock going on, if the radio delivers a frame of the command unit
\* to the actuator again and again then, once the switches rest at levels
\* that make a code c of 0, 2, 4, 5, the actuator comes to retain c and to
\* hold the levels of c on its pins, whatever frames were lost before.
C14_RecoveryByRefiring ==
  []<><<LinkDeliver>>_vars =>
  <>[]((/\ link.on
        /\ set_up_success = 1
        /\ CodeOfLevels(link.sw) \in {0, 2, 4, 5}) =>
         /\ rcv_opcode = CodeOfLevels(link.sw)
         /\ pins = link.sw)

\* frames were lost, the switches came to rest at fill=1, dump=0, check=1 and
\* the actuator has come to retain 5 and to hold its levels
C14_Witness ==
  /\ link.on
  /\ link.lost
  /\ link.sw = <<1, 0, 1>>
  /\ link.to = <<1, 0, 1>>
  /\ pc = "loop"
  /\ rcv_opcode = 5
  /\ pins = <<1, 0, 1>>

\* C12: on the callback-driven command unit and actuators an
\* iteration of loop() sends exactly when millis() - last_send_time > interval:
\* no frame is handed to the radio otherwise, and when the condition holds
\* the iteration cannot pass without sending.  After the send last_send_time
\* is set to the clock and interval is drawn again.  At every send more than
\* the interval in force has passed since the send before.
C12_SchedulerFiringRule ==
  /\ [][(pc = "loop" /\ pc' = "stamp") =>
          /\ millis - last_send_time > interval
          /\ (sent_at # -1 => millis - sent_at > interval)]_vars
  /\ [][(pc = "stamp" /\ pc' # "stamp") =>
          /\ last_send_time' = millis
          /\ (interval' - INTERVAL_BASE) \in 0..(RANDOM_MAX - 1)]_vars
  /\ []((board \in CallbackBoards /\ LoopRuns) =>
          /\ (ENABLED LoopIdle) <=> ~(millis - last_send_time > interval)
          /\ (ENABLED (ActuatorSend \/ UltraSend \/ CommandSend))
                <=> (millis - last_send_time > interval))

\* the command unit hands its second frame to the radio, 1000 ms after it
\* stamped the first with an interval of 500
C12_Witness ==
  /\ board = "command_inter"
  /\ pc = "stamp"
  /\ last_send_time = 3 * INTERVAL_BASE
  /\ interval = INTERVAL_BASE
  /\ sent_at = 5 * INTERVAL_BASE
  /\ millis = sent_at

\* C13: on a unit with the transmit scheduler interval is at every moment at
\* least 500 and less than 1500: at power-up, where it is 1000, and after any
\* number of sends.
C13_JitterBound ==
  board \in CallbackBoards => (500 <= interval /\ interval < 1500)

\* the pressure actuator has sent twice and drawn 1499 after the second send
C13_Witness ==
  /\ board = "actuator_inter"
  /\ pc = "actuate"
  /\ interval = 1499
  /\ last_send_time > sent_at
  /\ pin_written

\* a | b on bytes, bit by bit
BitwiseOr(a, b) ==
  LET bit(i) == IF BitOf(a, i) = 1 \/ BitOf(b, i) = 1 THEN 2 ^ i ELSE 0
  IN bit(0) + bit(1) + bit(2) + bit(3) + bit(4) + bit(5) + bit(6) + bit(7)

\* C15: for every code in 0..7 the code opcode_generator makes of the three
\* levels of the code is the code itself, and its levels are the same levels
\* again; and on any levels 0/1 of the three switches the sum
\* opcode_generator returns is fill<<2 | dump<<1 | check.
C15_CodecRoundTrip ==
  (bench.fn = "codec" /\ bench.done) =>
    /\ bench.code \in 0..7 =>
         /\ bench.out.bits = <<(bench.code \div 4) % 2, (bench.code \div 2) % 2,
                               bench.code % 2>>
         /\ bench.out.packed = bench.code
         /\ bench.out.bits_again = bench.out.bits
    /\ bench.out.sum =
         BitwiseOr(BitwiseOr(4 * bench.sw[1], 2 * bench.sw[2]), bench.sw[3])

\* code 6 went to the levels (1,1,0) and back to 6, and switches at (1,0,1)
\* gave 5
C15_Witness ==
  /\ bench.fn = "codec"
  /\ bench.done
  /\ bench.code = 6
  /\ bench.out.bits = <<1, 1, 0>>
  /\ bench.out.packed = 6
  /\ bench.sw = <<1, 0, 1>>
  /\ bench.out.sum = 5

\* the place of the first '|' of a text, one past its end if it has none
FirstSeparator(t) ==
  IF \E i \in 1..Len(t) : t[i] = SEPARATOR
  THEN CHOOSE i \in 1..Len(t) :
         t[i] = SEPARATOR /\ \A j \in 1..(i - 1) : t[j] # SEPARATOR
  ELSE Len(t) + 1
\* a text cut as the rule says: up to the first '|', from there up to the
\* next '|', and all the rest
FieldsByRule(t) ==
  LET p1 == FirstSeparator(t)
      rest == SubSeq(t, p1 + 1, Len(t))
      p2 == FirstSeparator(rest)
  IN <<SubSeq(t, 1, p1 - 1), SubSeq(rest, 1, p2 - 1),
       SubSeq(rest, p2 + 1, Len(rest))>>

\* C16: the command unit's onReceive, on an accepted packet, leaves in the
\* three Strings the payload cut at its first two '|': what comes before the
\* first, what lies between the first and the second, and all that follows
\* the second, further '|' included; a part never reached is empty.  "5|"
\* gives ("5","",""), "1|2|3|4" gives ("1","2","3|4").
C16_SensorDecodeRule ==
  (bench.fn = "onReceive_command" /\ bench.done
     /\ HeaderMatches(bench.pkt, CMD_LOCAL, CMD_DEST)) =>
    LET payload == SubSeq(bench.pkt, 3, Len(bench.pkt))
    IN /\ bench.out = FieldsByRule(payload)
       /\ payload = <<53, SEPARATOR>> => bench.out = <<<<53>>, <<>>, <<>>>>
       /\ payload = <<49, SEPARATOR, 50, SEPARATOR, 51, SEPARATOR, 52>> =>
            bench.out = <<<<49>>, <<50>>, <<51, SEPARATOR, 52>>>>

\* "1|2|3|4" was scanned over Strings that held "7", "" and "8|"
C16_Witness ==
  /\ bench.fn = "onReceive_command"
  /\ bench.done
  /\ bench.pkt = <<CMD_LOCAL, CMD_DEST, 49, SEPARATOR, 50, SEPARATOR, 51, SEPARATOR, 52>>
  /\ bench.g = <<<<55>>, <<>>, <<56, SEPARATOR>>>>
  /\ bench.out[3] = <<51, SEPARATOR, 52>>

\* C17: the frame the pressure actuator's sendMessage makes of three
\* readings, whose texts hold no '|', is taken by the command unit's
\* onReceive and leaves in the three Strings exactly the three texts
\* sendMessage printed.
C17_SensorRoundTrip ==
  (bench.fn = "sensor_round_trip" /\ bench.done) =>
    /\ \A k \in 1..3 : \A i \in 1..Len(FloatString(bench.data[k])) :
         FloatString(bench.data[k])[i] # SEPARATOR
    /\ bench.out = <<FloatString(bench.data[1]), FloatString(bench.data[2]),
                     FloatString(bench.data[3])>>

\* readings 1023, 512 and 7 came back as "1023.00", "512.00" and "7.00"
C17_Witness ==
  /\ bench.fn = "sensor_round_trip"
  /\ bench.done
  /\ bench.data = <<1023, 512, 7>>
  /\ bench.out = << <<49, 48, 50, 51, 46, 48, 48>>, <<53, 49, 50, 46, 48, 48>>,
                    <<55, 46, 48, 48>> >>

\* C18: LED_actuation called twice in a row with a code of 0, 2, 4, 5, from
\* any retained code, writes the same three levels both times and the second
\* call leaves the retained code as the first left it, at that code.
C18_LatchIdempotence ==
  (bench.fn = "LED_actuation_twice" /\ bench.done /\ bench.code \in {0, 2, 4, 5}) =>
    /\ bench.out2.fill = bench.out.fill
    /\ bench.out2.dump = bench.out.dump
    /\ bench.out2.check = bench.out.check
    /\ bench.out2.rcv_opcode = bench.out.rcv_opcode
    /\ bench.out2.rcv_opcode = bench.code

\* the latch holding 2 was given 5 twice
C18_Witness ==
  /\ bench.fn = "LED_actuation_twice"
  /\ bench.calls = 2
  /\ bench.code = 5
  /\ bench.latched = 2
  /\ bench.out = [rcv_opcode |-> 5, fill |-> 1, dump |-> 0, check |-> 1]
  /\ bench.out2 = bench.out

\* C19: state_determination of both polling sketches returns, for every
\* byte, the label of the table: off for 0, don't care for 1, dumping for 2,
\* fill-ready for 4, filling for 5, forbidden for exactly 3, 6 and 7, and
\* unknown for every byte from 8 to 255.
C19_StateClassification ==
  (bench.fn \in {"state_determination", "state_determination_command"}
     /\ bench.done) =>
    /\ bench.code = 0 => bench.out = "off"
    /\ bench.code = 1 => bench.out = "don't care"
    /\ bench.code = 2 => bench.out = "dumping"
    /\ bench.code = 4 => bench.out = "fill-ready"
    /\ bench.code = 5 => bench.out = "filling"
    /\ (bench.out = "forbidden") <=> (bench.code \in {3, 6, 7})
    /\ (bench.out = "unknown") <=> (bench.code \in 8..255)

\* the polling actuator's state_determination was given 7
C19_Witness ==
  /\ bench.fn = "state_determination"
  /\ bench.done
  /\ bench.code = 7
  /\ bench.out = "forbidden"

\* C20: on the callback-driven actuators the retained code and the three
\* pins change only in LED_actuation, LED_actuation is entered only from the
\* statements after a send, and a send happens only in an iteration of
\* loop() whose send condition holds: onReceive, whether it takes the packet
\* or not, and an iteration that does not send leave them as they are.
C20_LatchFrame ==
  /\ [][(board \in CallbackActuators
           /\ (rcv_opcode' # rcv_opcode \/ pins' # pins)) =>
          pc \in {"actuate", "write_fill", "write_dump", "write_check"}]_vars
  /\ [][(board \in CallbackActuators /\ pc # "actuate" /\ pc' = "actuate") =>
          pc = "stamp"]_vars
  /\ [][(board \in CallbackActuators /\ pc # "stamp" /\ pc' = "stamp") =>
          (pc = "loop" /\ millis - last_send_time > interval)]_vars

\* the ultrasonic actuator retains 2, has taken a packet with opcode 5
\* since, and is in iterations that do not send: 2 is still on the pins
C20_Witness ==
  /\ board = "actuator_ultra"
  /\ pc = "loop"
  /\ opcode = 5
  /\ rcv_opcode = 2
  /\ pins = <<0, 1, 0>>
  /\ millis - last_send_time <= interval

\* the opcode of the last packet of the window, 0 (the initial opcode) when
\* no packet was accepted yet
LastHeard == IF win.heard = <<>> THEN 0 ELSE win.heard[Len(win.heard)]

\* C21: on the pressure actuator, of the packets accepted between two calls
\* of LED_actuation only the last one counts: its opcode is the one handed
\* to LED_actuation at the next call, the retained code is at every moment
\* what the latch makes of the code last handed over and of the code
\* retained before, and each pin holds the level of the one or of the other;
\* an opcode accepted earlier in the window, safe or not, is never retained
\* and never written.
C21_LastWriterWins ==
  win.on =>
    /\ win.heard # <<>> => opcode = LastHeard
    /\ win.called => win.code = LastHeard
    /\ rcv_opcode = IF pc \in {"latch_test", "latch_assign"}
                    THEN win.held
                    ELSE LED_actuation(win.code, win.held).rcv_opcode
    /\ \A i \in 1..3 : pins[i] \in {decode(rcv_opcode)[i], decode(win.held)[i]}
    /\ pc \in {"loop", "stamp", "actuate"} => pins = decode(rcv_opcode)

\* opcode 5 and then opcode 2 were accepted while 0 was retained;
\* LED_actuation has run since: 2 is retained and on the pins
C21_Witness ==
  /\ win.on
  /\ win.heard = <<5, 2>>
  /\ win.called
  /\ win.held = 0
  /\ pc = "loop"
  /\ rcv_opcode = 2
  /\ pins = <<0, 1, 0>>

\* C25: on the pressure actuator, with packets carrying the opcodes 0..7
\* accepted at any moment (before the call of LED_actuation, between any two
\* of its statements, after it), the code LED_actuation assigns is the very
\* copy it tested: the retained code is never one of {1,3,6,7}, the three
\* levels LED_actuation hands to digitalWrite are never those of such a
\* code, and outside the three digitalWrite calls the pins never hold them.
C25_OneSnapshot ==
  win.on =>
    /\ rcv_opcode \notin UNSAFE
    /\ pc = "latch_assign" => win.code \notin UNSAFE
    /\ pc = "latch_decode" => rcv_opcode \in {win.held, win.code}
    /\ rcv_sw \notin UnsafePatterns
    /\ pc \notin {"write_dump", "write_check"} => pins \notin UnsafePatterns

\* LED_actuation was called with 5 while 2 was retained, a packet carrying 7
\* was accepted before the assignment, and the assignment has retained 5
C25_Witness ==
  /\ win.on
  /\ pc = "latch_decode"
  /\ win.code = 5
  /\ win.held = 2
  /\ ~win.called
  /\ opcode = 7
  /\ rcv_opcode = 5

\* C22: on each of the three actuators (polling, ultrasonic, pressure) the
\* byte that will be handed to LED_actuation is replaced only by the third
\* byte read from a packet whose first two bytes are the actuator's address
\* and its peer's; any other packet leaves it as it was.
C22_ActuatorsDiscardMismatched ==
  (/\ bench.fn \in {"onReceive_actuator", "onReceive_ultra", "loop_prelim"}
   /\ bench.done
   /\ bench.out.opcode # bench.g.opcode) =>
    /\ HeaderMatches(bench.pkt, ACT_LOCAL, ACT_DEST)
    /\ bench.out.opcode = LoRaRead(bench.pkt, 3)

\* C23: for every retained code L in 0..255 and every received byte b in
\* 0..255, LED_actuation of the pressure actuator, of the ultrasonic
\* actuator and of the polling actuator return with the same retained code
\* and the same three levels.
C23_OneConsumerLogic ==
  (bench.fn = "LED_actuation_three" /\ bench.done) =>
    /\ bench.out[1] = bench.out[2]
    /\ bench.out[2] = bench.out[3]

\* the three were given 7 while retaining 5 and all kept 5 and its levels
C23_Witness ==
  /\ bench.fn = "LED_actuation_three"
  /\ bench.done
  /\ bench.code = 7
  /\ bench.latched = 5
  /\ \A k \in 1..3 :
       bench.out[k] = [rcv_opcode |-> 5, fill |-> 1, dump |-> 0, check |-> 1]

\* C24: the command unit (address 0xCC, peer 0xBB) and the actuators
\* (address 0xBB, peer 0xCC) name each other: every frame sendMessage of one
\* builds gets past the address check of onReceive across the link, which
\* takes its payload, and never past the address check of the unit that
\* built it, whose onReceive leaves its globals as they were.
C24_PairingConsistentEchoFree ==
  (bench.fn = "pairing" /\ bench.done) =>
    LET g == PairingActuatorGlobals(bench.code)
        o == bench.out
    IN /\ CMD_LOCAL = ACT_DEST /\ CMD_DEST = ACT_LOCAL /\ CMD_LOCAL # ACT_LOCAL
       /\ HeaderMatches(o.from_command, ACT_LOCAL, ACT_DEST)
       /\ o.command_at_actuator = [g EXCEPT !.opcode = bench.code]
       /\ o.command_at_ultra = [g EXCEPT !.opcode = bench.code]
       /\ HeaderMatches(o.from_actuator, CMD_LOCAL, CMD_DEST)
       /\ HeaderMatches(o.from_ultra, CMD_LOCAL, CMD_DEST)
       /\ o.actuator_at_command # PairingSensorGlobals
       /\ o.actuator_at_command[1] = FloatString(bench.data[1])
       /\ o.ultra_at_command = <<DistanceString(bench.duration), <<>>, <<>>>>
       /\ ~HeaderMatches(o.from_command, CMD_LOCAL, CMD_DEST)
       /\ o.command_at_command = PairingSensorGlobals
       /\ ~HeaderMatches(o.from_actuator, ACT_LOCAL, ACT_DEST)
       /\ ~HeaderMatches(o.from_ultra, ACT_LOCAL, ACT_DEST)
       /\ o.actuator_at_actuator = g
       /\ o.ultra_at_ultra = g

\* the command unit's frame with opcode 5 set the actuator's opcode to 5
\* and left the command unit's own Strings alone; the actuator's frame with
\* readings 1023, 512, 7 reached the command unit's Strings and left the
\* actuator's opcode at 6
C24_Witness ==
  /\ bench.fn = "pairing"
  /\ bench.done
  /\ bench.code = 5
  /\ bench.data = <<1023, 512, 7>>
  /\ bench.out.from_command = <<187, 204, 5>>
  /\ bench.out.command_at_actuator.opcode = 5
  /\ bench.out.command_at_command = <<<<49>>, <<50>>, <<51>>>>
  /\ bench.out.actuator_at_command[3] = <<55, 46, 48, 48>>
  /\ bench.out.actuator_at_actuator.opcode = 6

\* C26: when the command unit's onReceive returns from an accepted packet
\* the three Strings are the fields of that packet's payload alone, whatever
\* they held before: after "1|2|3" the packet "5" leaves ("5","",""); a
\* packet it turns away and a packet of length zero leave the three Strings
\* as they were.
C26_FieldsOfLatestPacketOnly ==
  (bench.fn = "onReceive_command" /\ bench.done) =>
    LET payload == SubSeq(bench.pkt, 3, Len(bench.pkt))
    IN IF HeaderMatches(bench.pkt, CMD_LOCAL, CMD_DEST)
       THEN /\ bench.out = FieldsByRule(payload)
            /\ (bench.g = FieldsByRule(<<49, SEPARATOR, 50, SEPARATOR, 51>>)
                  /\ payload = <<53>>) => bench.out = <<<<53>>, <<>>, <<>>>>
       ELSE bench.out = bench.g

\* the Strings held "1", "2", "3", what "1|2|3" leaves, and the packet
\* carrying "5" was accepted: "5", "", "" are left
C26_Witness ==
  /\ bench.fn = "onReceive_command"
  /\ bench.done
  /\ bench.g = <<<<49>>, <<50>>, <<51>>>>
  /\ bench.pkt = <<CMD_LOCAL, CMD_DEST, 53>>
  /\ bench.out = <<<<53>>, <<>>, <<>>>>

\* C27: every frame the command unit sends is the three bytes (peer
\* address, own address, opcode), the opcode is in 0..7 and is
\* 4*fill + 2*dump + check of the switch levels read in the iteration of
\* loop() that sent it; the codes 1, 3, 6 and 7 are sent as they are when the
\* switches select them.
C27_CommandSendsUnfiltered ==
  (link.on /\ link.air # <<>>) =>
    /\ Len(link.air) = 3
    /\ link.air[1] = CMD_DEST
    /\ link.air[2] = CMD_LOCAL
    /\ link.air[3] \in 0..7
    /\ link.air[3] = 4 * link.air_sw[1] + 2 * link.air_sw[2] + link.air_sw[3]
    /\ link.air_sw = <<0, 0, 1>> => link.air[3] = 1
    /\ link.air_sw = <<0, 1, 1>> => link.air[3] = 3
    /\ link.air_sw = <<1, 1, 0>> => link.air[3] = 6
    /\ link.air_sw = <<1, 1, 1>> => link.air[3] = 7

\* with the switches all on the command unit has put the frame carrying 7 on
\* the air
C27_Witness ==
  /\ link.on
  /\ link.air_sw = <<1, 1, 1>>
  /\ link.air = <<187, 204, 7>>
  /\ link.c_pc = "stamp"

====
